---------------------------- MODULE Spec2Model ----------------------------
(***************************************************************************)
(* Interrupt and timer hardware-abstraction layer (axhal_split).            *)
(*                                                                         *)
(*   src/src/irq.rs                               common IRQ layer          *)
(*   src/src/platform/riscv64_qemu_virt/irq.rs    RISC-V scause backend     *)
(*   src/src/platform/aarch64_common/gic-bak.rs   GICv2 backend             *)
(*   src/src/platform/aarch64_common/gic.rs       GICv3 backend             *)
(*   src/src/platform/aarch64_common/generic_timer.rs  generic timer        *)
(*                                                                         *)
(* One backend is compiled in per build; `backend` is chosen in Init and    *)
(* never changes.  Every core runs calls concurrently; a call is a frame    *)
(* (frame[c]) that advances one shared-memory access at a time.  A panic   *)
(* halts the kernel: no action is enabled once `panic` is set.              *)
(***************************************************************************)
EXTENDS Naturals, Sequences, FiniteSets, TLC

\* ------------------------------------------------------------------ bounds
NumCores == 2
NumHandlers == 2
\* Calls started in one run (register, dispatch, trap entries, init).
MaxCalls == 3

Cores == 1..NumCores
\* fn() pointers: non-zero machine words.
Handlers == 1..NumHandlers

\* ------------------------------------------------------- program constants
MAX_IRQ_COUNT == 1024
\* HandlerTable stores handlers in AtomicUsize slots; 0 is the empty slot.
NoHandler == 0
\* IntId::sgi(3): the software-generated interrupt reserved for rescheduling.
SGI_RESCHED == 3

\* A usize trap cause is kept as its top bit (INTC_IRQ_BASE = 1 << 63, the
\* `Interrupt` bit of scause) and the remaining low bits.
Cause(intr, code) == [intr |-> intr, code |-> code]
S_SOFT == Cause(TRUE, 1)
S_TIMER == Cause(TRUE, 5)
S_EXT == Cause(TRUE, 9)
\* `scause & !INTC_IRQ_BASE`: the cause with the Interrupt bit cleared.
StripIntcBase(scause) == scause.code
\* The `_unused` argument the GIC backends ignore.
NoCause == Cause(FALSE, 0)

\* ------------------------------------------------------ machine integers
\* u32, u64 and u128 values are little-endian sequences of bytes (4, 8 and
\* 16 of them), so that every width the code computes in is kept exactly.
ByteBase == 2^8

\* The function f on 1..n as a sequence of bytes, each byte computed once.
Bytes(f) == f \o <<>>

BZero(n) == Bytes([i \in 1..n |-> 0])

\* The bytes of a natural number below 2^31, in n bytes.
BFromNat(v, n) ==
    Bytes([i \in 1..n |->
              IF i <= 4 THEN (v \div (ByteBase^(i - 1))) % ByteBase ELSE 0])

\* `x as uN`: zero-extension, or truncation to the low n bytes.
BResize(x, n) == Bytes([i \in 1..n |-> IF i <= Len(x) THEN x[i] ELSE 0])

\* A u64 from its four 16-bit words, most significant first.
U64(w3, w2, w1, w0) ==
    <<w0 % ByteBase, w0 \div ByteBase, w1 % ByteBase, w1 \div ByteBase,
      w2 % ByteBase, w2 \div ByteBase, w3 % ByteBase, w3 \div ByteBase>>

U64_ZERO == BZero(8)
\* u32::MAX as u64
U32_MAX == U64(0, 0, 65535, 65535)

BIsZero(x) == \A i \in 1..Len(x) : x[i] = 0

\* a < b for values of equal length.
RECURSIVE BLtFrom(_, _, _)
BLtFrom(a, b, i) ==
    IF i = 0 THEN FALSE
    ELSE IF a[i] # b[i] THEN a[i] < b[i]
    ELSE BLtFrom(a, b, i - 1)

BLt(a, b) == BLtFrom(a, b, Len(a))
BLe(a, b) == ~BLt(b, a)

\* a + b, wrapping at the operands' width.
RECURSIVE BAddFrom(_, _, _, _)
BAddFrom(a, b, i, carry) ==
    IF i > Len(a) THEN <<>>
    ELSE LET t == a[i] + b[i] + carry
         IN  <<t % ByteBase>> \o BAddFrom(a, b, i + 1, t \div ByteBase)

BAdd(a, b) == BAddFrom(a, b, 1, 0)

\* The carry out of a + b: the addition overflows the operands' width.
RECURSIVE BCarryFrom(_, _, _, _)
BCarryFrom(a, b, i, carry) ==
    IF i > Len(a) THEN carry
    ELSE BCarryFrom(a, b, i + 1, (a[i] + b[i] + carry) \div ByteBase)

BAddOverflows(a, b) == BCarryFrom(a, b, 1, 0) = 1

\* a - b, wrapping at the operands' width.
RECURSIVE BSubFrom(_, _, _, _)
BSubFrom(a, b, i, borrow) ==
    IF i > Len(a) THEN <<>>
    ELSE LET t == a[i] + ByteBase - b[i] - borrow
         IN  <<t % ByteBase>> \o BSubFrom(a, b, i + 1, 1 - (t \div ByteBase))

BSub(a, b) == BSubFrom(a, b, 1, 0)

\* x >> s within the operand's width.
BShr(x, s) ==
    LET q == s \div 8
        r == s % 8
        n == Len(x)
        at(i) == IF i + q <= n THEN x[i + q] ELSE 0
    IN  Bytes([i \in 1..n |->
                  (at(i) \div (2^r)) + (at(i + 1) % (2^r)) * (2^(8 - r))])

\* x << s within the operand's width (the bits shifted out are lost).
BShl(x, s) ==
    LET q == s \div 8
        r == s % 8
        n == Len(x)
        at(i) == IF i - q >= 1 THEN x[i - q] ELSE 0
    IN  Bytes([i \in 1..n |->
                  ((at(i) * (2^r)) % ByteBase) + (at(i - 1) \div (2^(8 - r)))])

\* a * m for one byte m, in Len(a) + 1 bytes.
RECURSIVE BMulByteFrom(_, _, _, _)
BMulByteFrom(a, m, i, carry) ==
    IF i > Len(a) THEN <<carry>>
    ELSE LET t == a[i] * m + carry
         IN  <<t % ByteBase>> \o BMulByteFrom(a, m, i + 1, t \div ByteBase)

\* a * b in Len(a) + Len(b) bytes (never overflows).
RECURSIVE BMulFrom(_, _, _)
BMulFrom(a, b, j) ==
    LET n == Len(a) + Len(b)
    IN  IF j > Len(b) THEN BZero(n)
        ELSE BAdd(BShl(BResize(BMulByteFrom(a, b[j], 1, 0), n), 8 * (j - 1)),
                  BMulFrom(a, b, j + 1))

BMul(a, b) == BMulFrom(a, b, 1)

\* x / d, truncating, by binary long division, for a divisor d that is not
\* zero and fits in a u32 (the only divisors the code uses).  The divisor and
\* the running remainder (below 2 * d) are held as two 16-bit halves.
Halves(x) ==
    [hi |-> x[3] + ByteBase * x[4], lo |-> x[1] + ByteBase * x[2]]

\* The quotient byte and the remainder after the bits k..0 of one byte.
RECURSIVE BDivBits(_, _, _, _, _)
BDivBits(byte, k, d, q, r) ==
    IF k < 0 THEN [q |-> q, r |-> r]
    ELSE LET lo2 == 2 * r.lo + ((byte \div (2^k)) % 2)
             hi1 == 2 * r.hi + (lo2 \div 65536)
             lo1 == lo2 % 65536
             ge  == hi1 > d.hi \/ (hi1 = d.hi /\ lo1 >= d.lo)
         IN  IF ~ge THEN BDivBits(byte, k - 1, d, 2 * q, [hi |-> hi1, lo |-> lo1])
             ELSE IF lo1 >= d.lo
             THEN BDivBits(byte, k - 1, d, 2 * q + 1,
                           [hi |-> hi1 - d.hi, lo |-> lo1 - d.lo])
             ELSE BDivBits(byte, k - 1, d, 2 * q + 1,
                           [hi |-> hi1 - d.hi - 1, lo |-> lo1 + 65536 - d.lo])

\* The quotient bytes j..1 (least significant first), given the remainder r
\* of the bytes above j.
RECURSIVE BDivFrom(_, _, _, _)
BDivFrom(x, d, j, r) ==
    IF j = 0 THEN <<>>
    ELSE LET s == BDivBits(x[j], 7, d, 0, r)
         IN  Append(BDivFrom(x, d, j - 1, s.r), s.q)

BDiv(x, d) == BDivFrom(x, Halves(d), Len(x), [hi |-> 0, lo |-> 0])

\* ------------------------------------------------------------------ inputs
Backends == {"gicv2", "gicv3", "riscv"}
\* Line numbers handed to the common layer: the RISC-V placeholder line 0,
\* the line of S_EXT, the last valid line and the first invalid one.
LineInputs == {0, StripIntcBase(S_EXT), MAX_IRQ_COUNT - 1, MAX_IRQ_COUNT}
\* Trap causes handed to the RISC-V backend: the three interrupt causes, an
\* unknown interrupt cause and an exception cause (Interrupt bit clear).
CauseInputs == {S_SOFT, S_TIMER, S_EXT, Cause(TRUE, 7), Cause(FALSE, 9)}

VARIABLES
    backend,            \* the controller backend compiled in
    IRQ_HANDLER_TABLE,  \* irq.rs: HandlerTable<MAX_IRQ_COUNT>
    TIMER_HANDLER,      \* riscv irq.rs: LazyInit<IrqHandler> (NoHandler = uninit)
    GIC_V3,             \* gic.rs: SpinNoIrq<Option<GicV3Wrapper>> ("None"/"Some")
    enabled,            \* lines unmasked in the GIC distributor
    sgi_unmasked,       \* cores whose banked enable bit of SGI 3 is set
    ipi_pending,        \* RISC-V: harts whose supervisor software interrupt
                        \*   is pending (set and cleared through the SBI)
    frame,              \* per core: the call in progress or last completed
    guard,              \* per core: a kernel_guard::NoPreempt is held
    panic,              \* "none", or the message of the panic that halted
    calls,              \* number of calls started so far
    enable_calls,       \* history: lines L of set_enable(L, true) calls made
                        \*   by register_handler_common
    reg_true,           \* history: per line, the handlers of the
                        \*   register_handler_common calls that returned true
    api_true,           \* history: [cause, line, h] of the public
                        \*   register_handler calls that returned true
    CNTFRQ_EL0,             \* counter frequency register (u64)
    CNTPCT_EL0,             \* physical counter register (u64)
    CNTP_TVAL_EL0,          \* the value last written to the timer value
                            \*   register (u64)
    CNTPCT_TO_NANOS_RATIO,  \* generic_timer.rs:9   static mut Ratio
    NANOS_TO_CNTPCT_RATIO,  \* generic_timer.rs:10  static mut Ratio
    init_early_done,        \* init_early has run
    debug_assertions,       \* the build checks debug_assert!
    oneshot,                \* history: the last set_oneshot_timer call
    CNTP_CTL_EL0,           \* timer control register: the flags set
    TIMER,                  \* generic_timer.rs:97  the GenericTimer
    TIMER_lock,             \* the context holding TIMER's spin::Mutex
    RTC_EPOCHOFFSET_NANOS,  \* generic_timer.rs:12  static mut u64
    rtc,                    \* the PL031 RTC, if the build configures one
    timer_cond,             \* hardware: the countdown has reached zero
    daif_i,                 \* the core's IRQ mask bit (PSTATE.I)
    tpc,                    \* position of the core's thread and of its
                            \*   timer interrupt handler in the timer code
    tdone,                  \* history: the timer calls completed
    conv                    \* history: the last clock reading (the tick
                            \*   count converted to nanoseconds and back,
                            \*   and epochoffset_nanos())

\* The interrupt layer's variables other than panic, and the timer's.
intc_state == <<enabled, sgi_unmasked, ipi_pending>>

irq_vars == <<backend, IRQ_HANDLER_TABLE, TIMER_HANDLER, GIC_V3, intc_state, frame,
              guard, calls, enable_calls, reg_true, api_true>>

timer_ctl_vars == <<CNTP_CTL_EL0, TIMER, TIMER_lock, RTC_EPOCHOFFSET_NANOS,
                    rtc, timer_cond, daif_i, tpc, tdone, conv>>

timer_vars == <<CNTFRQ_EL0, CNTPCT_EL0, CNTP_TVAL_EL0, CNTPCT_TO_NANOS_RATIO,
                NANOS_TO_CNTPCT_RATIO, init_early_done, debug_assertions,
                oneshot, timer_ctl_vars>>

vars == <<irq_vars, panic, timer_vars>>

\* --------------------------------------------------------------- frames
IdleFrame ==
    [op |-> "idle", pc |-> "idle", cause |-> NoCause, line |-> 0,
     h |-> NoHandler, ret |-> "none", inv |-> <<>>, expect |-> NoHandler]

NewFrame(op, pc, cause, line, h) ==
    [op |-> op, pc |-> pc, cause |-> cause, line |-> line,
     h |-> h, ret |-> "none", inv |-> <<>>, expect |-> NoHandler]

\* A core takes a new call when it is idle or its last call has returned.
Ready(c) ==
    /\ panic = "none"
    /\ frame[c].pc \in {"idle", "done"}
    /\ calls < MaxCalls
    /\ calls' = calls + 1

At(c, pc) == panic = "none" /\ frame[c].pc = pc

Return(c, ret) ==
    frame' = [frame EXCEPT ![c].pc = "done", ![c].ret = ret]

Goto(c, pc) == frame' = [frame EXCEPT ![c].pc = pc]

\* panic!(): the kernel halts with the core's frame left where it panicked.
Panic(c, msg) ==
    /\ panic' = msg
    /\ frame' = [frame EXCEPT ![c].pc = "panicked"]

\* ------------------------------------------------------- Handler Table
\* HandlerTable<MAX_IRQ_COUNT>: MAX_IRQ_COUNT slots, each empty (0) or
\* holding a handler.  The table is kept as the map from the occupied
\* slots' indices to their handlers; every other slot below MAX_IRQ_COUNT
\* is empty.
EmptyTable == [i \in {} |-> NoHandler]

Slot(tbl, idx) == IF idx \in DOMAIN tbl THEN tbl[idx] ELSE NoHandler

\* HandlerTable::register_handler(idx, handler): fails when idx is out of
\* range or the slot is occupied; otherwise installs (one compare-exchange).
HandlerTable_register_handler(tbl, idx, handler) ==
    IF idx < MAX_IRQ_COUNT /\ Slot(tbl, idx) = NoHandler
    THEN [ok |-> TRUE,
          tbl |-> [i \in DOMAIN tbl \cup {idx} |->
                      IF i = idx THEN handler ELSE tbl[i]]]
    ELSE [ok |-> FALSE, tbl |-> tbl]

\* HandlerTable::handle(idx): the handlers it invokes, in order (none when
\* no handler is installed at idx; it returns true iff it invoked one).
HandlerTable_handle(tbl, idx) ==
    IF idx < MAX_IRQ_COUNT /\ Slot(tbl, idx) # NoHandler
    THEN <<Slot(tbl, idx)>>
    ELSE <<>>

\* ------------------------------------------------------------ set_enable
\* platform::irq::set_enable(irq_num, true), per backend.  GICv2 sets the
\* distributor's enable bit; GICv3 unwraps the singleton (panics on None);
\* RISC-V does nothing (PLIC enable is a TODO).
\* A set_enable that skips a missing controller instead of unwrapping it.
set_enable_panics_Never == FALSE

set_enable_panics == backend = "gicv3" /\ GIC_V3 = "None"

\* gic.rs:26, 40  the GIC_V3 lock is held by the core inside init_primary,
\* from its first statement to its return.
GIC_V3_locked == \E c \in Cores : frame[c].pc = "init_setup"

\* gic.rs:30-31  GIC_V3.lock() in set_enable spins while another holder has
\* the lock.
set_enable_lock_free == backend = "gicv3" => ~GIC_V3_locked

set_enable(irq_num) ==
    IF backend = "riscv" THEN enabled ELSE enabled \cup {irq_num}

\* ------------------------------------------------- register_handler_common
\* Mutant: `||` for `&&`; a line in range short-circuits past the table.
RegisterAttempt_OrForAnd(tbl, irq_num, handler) ==
    IF irq_num < MAX_IRQ_COUNT
    THEN [ok |-> TRUE, tbl |-> tbl]
    ELSE HandlerTable_register_handler(tbl, irq_num, handler)

\* Mutant: the table write is left out; only the range check decides.
RegisterAttempt_NoInstall(tbl, irq_num, handler) ==
    [ok |-> irq_num < MAX_IRQ_COUNT, tbl |-> tbl]

\* Mutant: the range comparison is inverted and joined with `||`.
RegisterAttempt_InvertedRange(tbl, irq_num, handler) ==
    IF irq_num >= MAX_IRQ_COUNT
    THEN [ok |-> TRUE, tbl |-> tbl]
    ELSE HandlerTable_register_handler(tbl, irq_num, handler)

\* irq.rs:30  `irq_num < MAX_IRQ_COUNT && IRQ_HANDLER_TABLE.register_handler(..)`
\* the table is only touched when the range check passes.
RegisterAttempt(tbl, irq_num, handler) ==
    IF irq_num < MAX_IRQ_COUNT
    THEN HandlerTable_register_handler(tbl, irq_num, handler)
    ELSE [ok |-> FALSE, tbl |-> tbl]

\* irq.rs:30,34-35  the condition; on failure warn! and return false.
RegCommonCas(c) ==
    /\ At(c, "reg_cas")
    /\ LET f == frame[c]
           r == RegisterAttempt(IRQ_HANDLER_TABLE, f.line, f.h)
       IN  /\ IRQ_HANDLER_TABLE' = r.tbl
           /\ IF r.ok THEN Goto(c, "reg_enable") ELSE Return(c, "false")
    /\ UNCHANGED timer_vars
    /\ UNCHANGED <<backend, TIMER_HANDLER, GIC_V3, intc_state, guard, panic,
                   calls, enable_calls, reg_true, api_true>>

\* History: a public register_handler call of frame f returned true.
NoteApiTrue(f) ==
    IF f.op = "register_handler"
    THEN api_true' =
            api_true \cup {[cause |-> f.cause, line |-> f.line, h |-> f.h]}
    ELSE UNCHANGED api_true

\* irq.rs:31-32  set_enable(irq_num, true); return true.
RegCommonEnable(c) ==
    /\ At(c, "reg_enable")
    /\ set_enable_lock_free
    /\ LET f == frame[c]
       IN  /\ enable_calls' = enable_calls \cup {f.line}
           /\ IF set_enable_panics
              THEN /\ Panic(c, "unwrap on None")
                   /\ UNCHANGED <<enabled, reg_true, api_true>>
              ELSE /\ enabled' = set_enable(f.line)
                   /\ reg_true' =
                        [reg_true EXCEPT ![f.line] = Append(@, f.h)]
                   /\ NoteApiTrue(f)
                   /\ Return(c, "true")
                   /\ UNCHANGED panic
    /\ UNCHANGED timer_vars
    /\ UNCHANGED <<backend, IRQ_HANDLER_TABLE, TIMER_HANDLER, GIC_V3, guard,
                   calls, sgi_unmasked, ipi_pending>>

\* A direct call of the crate-internal register_handler_common.
CallRegisterHandlerCommon(c, irq_num, handler) ==
    /\ Ready(c)
    /\ frame' = [frame EXCEPT ![c] =
          NewFrame("register_handler_common", "reg_cas", NoCause,
                   irq_num, handler)]
    /\ UNCHANGED timer_vars
    /\ UNCHANGED <<backend, IRQ_HANDLER_TABLE, TIMER_HANDLER, GIC_V3, intc_state,
                   guard, panic, enable_calls, reg_true, api_true>>

\* --------------------------------------------------- dispatch_irq_common
\* Mutant: the placeholder line 0 is handled instead of irq_num.
dispatch_irq_common_Line0(tbl, irq_num) == HandlerTable_handle(tbl, 0)

\* irq.rs:19  the handlers IRQ_HANDLER_TABLE.handle(irq_num) invokes.
dispatch_irq_common(tbl, irq_num) == HandlerTable_handle(tbl, irq_num)

\* What follows dispatch in the frame's outermost call: handler_irq goes on
\* to drop its guard; a direct call returns ().
AfterDispatch(c, inv) ==
    IF frame[c].op = "handler_irq"
    THEN frame' = [frame EXCEPT ![c].pc = "irq_drop", ![c].inv = inv]
    ELSE frame' = [frame EXCEPT ![c].pc = "done", ![c].ret = "unit",
                                ![c].inv = inv]

\* irq.rs:17-22  handle; warn! when it returns false.
DispatchCommonHandle(c) ==
    /\ At(c, "disp_handle")
    /\ LET f == frame[c]
       IN  AfterDispatch(c, f.inv \o dispatch_irq_common(IRQ_HANDLER_TABLE,
                                                         f.line))
    /\ UNCHANGED timer_vars
    /\ UNCHANGED <<backend, IRQ_HANDLER_TABLE, TIMER_HANDLER, GIC_V3, intc_state,
                   guard, panic, calls, enable_calls, reg_true, api_true>>

\* A direct call of the crate-internal dispatch_irq_common.
CallDispatchIrqCommon(c, irq_num) ==
    /\ Ready(c)
    /\ frame' = [frame EXCEPT ![c] =
          NewFrame("dispatch_irq_common", "disp_handle", NoCause,
                   irq_num, NoHandler)]
    /\ UNCHANGED timer_vars
    /\ UNCHANGED <<backend, IRQ_HANDLER_TABLE, TIMER_HANDLER, GIC_V3, intc_state,
                   guard, panic, enable_calls, reg_true, api_true>>

\* ------------------------------------------------ RISC-V trap-cause backend
\* riscv irq.rs:28-36  macro with_cause!: which arm a cause selects.
with_cause(cause) ==
    IF cause = S_TIMER THEN "TIMER"
    ELSE IF cause = S_EXT THEN "EXT"
    ELSE "panic"

\* riscv irq.rs:52  `!TIMER_HANDLER.is_inited()`: the flag is read first ...
TimerCheck(c) ==
    /\ At(c, "timer_check")
    /\ IF TIMER_HANDLER = NoHandler
       THEN Goto(c, "timer_init")
       ELSE Return(c, "false")
    /\ UNCHANGED timer_vars
    /\ UNCHANGED <<backend, IRQ_HANDLER_TABLE, TIMER_HANDLER, GIC_V3, intc_state,
                   guard, panic, calls, enable_calls, reg_true, api_true>>

\* riscv irq.rs:53-54  ... and init_once(handler) runs afterwards; LazyInit's
\* init_once panics when the value is already initialized.
TimerInitOnce(c) ==
    /\ At(c, "timer_init")
    /\ IF TIMER_HANDLER = NoHandler
       THEN /\ TIMER_HANDLER' = frame[c].h
            /\ NoteApiTrue(frame[c])
            /\ Return(c, "true")
            /\ UNCHANGED panic
       ELSE /\ Panic(c, "Already initialized")
            /\ UNCHANGED <<TIMER_HANDLER, api_true>>
    /\ UNCHANGED timer_vars
    /\ UNCHANGED <<backend, IRQ_HANDLER_TABLE, GIC_V3, intc_state, guard, calls,
                   enable_calls, reg_true>>

\* riscv irq.rs:72  `TIMER_HANDLER()`: LazyInit's deref panics when the value
\* was never initialized; otherwise the handler runs.
TimerCall(c) ==
    /\ At(c, "timer_call")
    /\ IF TIMER_HANDLER = NoHandler
       THEN Panic(c, "Use uninitialized value")
       ELSE /\ frame' = [frame EXCEPT ![c].pc = "irq_drop",
                                      ![c].inv = Append(@, TIMER_HANDLER)]
            /\ UNCHANGED panic
    /\ UNCHANGED timer_vars
    /\ UNCHANGED <<backend, IRQ_HANDLER_TABLE, TIMER_HANDLER, GIC_V3, intc_state,
                   guard, calls, enable_calls, reg_true, api_true>>

\* ------------------------------------------------------- register_handler
\* The public register_handler(x, handler) of the backend compiled in, up to
\* its first access to shared state.
\*   gic-bak.rs:34-37  GICv2: register_handler_common(irq_num, handler)
\*   gic.rs:85-87      GICv3: unimplemented!()
\*   riscv irq.rs:49-60  with_cause!: timer slot, or the common layer with
\*                       the line `scause & !INTC_IRQ_BASE`, or panic
register_handler_entry(b, cause, line) ==
    CASE b = "gicv2" -> [pc |-> "reg_cas", line |-> line]
      [] b = "gicv3" -> [pc |-> "unimplemented", line |-> line]
      [] b = "riscv" ->
            CASE with_cause(cause) = "TIMER" ->
                    [pc |-> "timer_check", line |-> 0]
              [] with_cause(cause) = "EXT" ->
                    [pc |-> "reg_cas", line |-> StripIntcBase(cause)]
              [] OTHER -> [pc |-> "invalid", line |-> 0]

EnterOrPanic(c, op, e, cause, handler) ==
    IF e.pc = "unimplemented"
    THEN /\ panic' = "not implemented"
         /\ frame' = [frame EXCEPT ![c] =
               NewFrame(op, "panicked", cause, e.line, handler)]
    ELSE IF e.pc = "invalid"
    THEN /\ panic' = "invalid trap cause"
         /\ frame' = [frame EXCEPT ![c] =
               NewFrame(op, "panicked", cause, e.line, handler)]
    ELSE /\ frame' = [frame EXCEPT ![c] =
               NewFrame(op, e.pc, cause, e.line, handler)]
         /\ UNCHANGED panic

\* The argument is a line number on the GIC backends and an scause value on
\* RISC-V.
CallRegisterHandler(c, cause, line, handler) ==
    /\ Ready(c)
    /\ IF backend = "riscv" THEN line = 0 ELSE cause = NoCause
    /\ EnterOrPanic(c, "register_handler",
                    register_handler_entry(backend, cause, line),
                    cause, handler)
    /\ UNCHANGED timer_vars
    /\ UNCHANGED <<backend, IRQ_HANDLER_TABLE, TIMER_HANDLER, GIC_V3, intc_state,
                   guard, enable_calls, reg_true, api_true>>

\* ------------------------------------------------------------ handler_irq
\* History: the handler a public register_handler(cause, h) call that has
\* already returned true registered for this cause (NoHandler when none).
RegisteredFor(cause) ==
    IF \E r \in api_true : r.cause = cause /\ cause # NoCause
    THEN (CHOOSE r \in api_true : r.cause = cause).h
    ELSE NoHandler

\* irq.rs:39-41  the IRQ trap entry: take the NoPreempt guard, then call
\* dispatch_irq(irq_num).
CallHandlerIrq(c, cause) ==
    /\ Ready(c)
    /\ IF backend = "riscv" THEN TRUE ELSE cause = NoCause
    /\ guard' = [guard EXCEPT ![c] = TRUE]
    /\ frame' = [frame EXCEPT ![c] =
          [NewFrame("handler_irq", "irq_dispatch", cause, 0, NoHandler)
             EXCEPT !.expect = RegisteredFor(cause)]]
    /\ UNCHANGED timer_vars
    /\ UNCHANGED <<backend, IRQ_HANDLER_TABLE, TIMER_HANDLER, GIC_V3, intc_state,
                   panic, enable_calls, reg_true, api_true>>

\* dispatch_irq(scause) of the backend compiled in, up to the call it makes.
\*   gic-bak.rs:44-46  GICv2: GICC.handle_irq(|irq_num| dispatch_irq_common)
\*                     where `vector` is the line the CPU interface reports
\*                     when an interrupt is `pending` (none when spurious)
\*   gic.rs:81-83      GICv3: unimplemented!()
\*   riscv irq.rs:67-76  with_cause!: TIMER_HANDLER(), or
\*                       dispatch_irq_common(0), or panic
dispatch_irq_entry(b, cause, vector, pending) ==
    CASE b = "gicv2" ->
            IF pending
            THEN [pc |-> "disp_handle", line |-> vector]
            ELSE [pc |-> "irq_drop", line |-> 0]
      [] b = "gicv3" -> [pc |-> "unimplemented", line |-> 0]
      [] b = "riscv" ->
            CASE with_cause(cause) = "TIMER" ->
                    [pc |-> "timer_call", line |-> 0]
              [] with_cause(cause) = "EXT" ->
                    [pc |-> "disp_handle", line |-> 0]
              [] OTHER -> [pc |-> "invalid", line |-> 0]

\* Lines the GICv2 CPU interface can report: any valid line input.
VectorInputs == {l \in LineInputs : l < MAX_IRQ_COUNT}

IrqDispatch(c, vector, pending) ==
    /\ At(c, "irq_dispatch")
    /\ backend # "gicv2" => (vector = 0 /\ pending)
    /\ ~pending => vector = 0
    /\ LET e == dispatch_irq_entry(backend, frame[c].cause, vector, pending)
       IN  IF e.pc = "unimplemented"
           THEN Panic(c, "not implemented")
           ELSE IF e.pc = "invalid"
           THEN Panic(c, "invalid trap cause")
           ELSE /\ frame' = [frame EXCEPT ![c].pc = e.pc, ![c].line = e.line]
                /\ UNCHANGED panic
    /\ UNCHANGED timer_vars
    /\ UNCHANGED <<backend, IRQ_HANDLER_TABLE, TIMER_HANDLER, GIC_V3, intc_state,
                   guard, calls, enable_calls, reg_true, api_true>>

\* A handler_irq that returns true with the guard still held.
IrqDrop_KeepGuard(c) ==
    /\ At(c, "irq_drop")
    /\ Return(c, "true")
    /\ UNCHANGED timer_vars
    /\ UNCHANGED <<backend, IRQ_HANDLER_TABLE, TIMER_HANDLER, GIC_V3, intc_state,
                   guard, panic, calls, enable_calls, reg_true, api_true>>

\* irq.rs:42-43  drop(guard); true
IrqDrop(c) ==
    /\ At(c, "irq_drop")
    /\ guard' = [guard EXCEPT ![c] = FALSE]
    /\ Return(c, "true")
    /\ UNCHANGED timer_vars
    /\ UNCHANGED <<backend, IRQ_HANDLER_TABLE, TIMER_HANDLER, GIC_V3, intc_state,
                   panic, calls, enable_calls, reg_true, api_true>>

\* irq.rs:39-43  `guard` is a local of handler_irq with a Drop
\* implementation.  A panic inside dispatch_irq halts the kernel where the
\* build aborts on panic (the guard is then never dropped and handler_irq
\* never exits); where the build unwinds, leaving handler_irq's frame drops
\* the guard.
IrqUnwind(c) ==
    /\ panic # "none"
    /\ frame[c].op = "handler_irq"
    /\ frame[c].pc = "panicked"
    /\ guard' = [guard EXCEPT ![c] = FALSE]
    /\ Goto(c, "unwound")
    /\ UNCHANGED timer_vars
    /\ UNCHANGED <<backend, IRQ_HANDLER_TABLE, TIMER_HANDLER, GIC_V3, intc_state,
                   panic, calls, enable_calls, reg_true, api_true>>

\* ------------------------------------------------------ GICv3 init_primary
\* gic.rs:39-48  init_primary(): take the GIC_V3 lock and store
\* Some(wrapper).
InitPrimary(c) ==
    /\ Ready(c)
    /\ backend = "gicv3"
    /\ ~GIC_V3_locked
    /\ GIC_V3' = "Some"
    /\ frame' = [frame EXCEPT ![c] =
          NewFrame("init_primary", "init_setup", NoCause, 0, NoHandler)]
    /\ UNCHANGED timer_vars
    /\ UNCHANGED <<backend, IRQ_HANDLER_TABLE, TIMER_HANDLER, intc_state, guard,
                   panic, enable_calls, reg_true, api_true>>

\* gic.rs:49-52  through the guard it holds: setup(), and
\* enable_interrupt(IntId::sgi(3), true) for the calling core; the return
\* drops the guard.
InitPrimarySetup(c) ==
    /\ At(c, "init_setup")
    /\ enabled' = enabled \cup {SGI_RESCHED}
    /\ sgi_unmasked' = sgi_unmasked \cup {c}
    /\ Return(c, "unit")
    /\ UNCHANGED timer_vars
    /\ UNCHANGED <<backend, IRQ_HANDLER_TABLE, TIMER_HANDLER, GIC_V3, guard,
                   panic, calls, enable_calls, reg_true, api_true,
                   ipi_pending>>

\* ------------------------------------------------------- GICv2 init
\* gic-bak.rs:49-53  init_primary(): GICD.lock().init(), which writes all
\* ones to every ICENABLER register (masking every line, and through the
\* banked ICENABLER0 the calling core's SGIs and PPIs), then GICC.init(),
\* which sets the CPU interface's control and priority-mask registers.
GicV2InitPrimary(c) ==
    /\ Ready(c)
    /\ backend = "gicv2"
    /\ enabled' = {}
    /\ sgi_unmasked' = sgi_unmasked \ {c}
    /\ frame' = [frame EXCEPT ![c] =
          [NewFrame("init_primary", "done", NoCause, 0, NoHandler)
             EXCEPT !.ret = "unit"]]
    /\ UNCHANGED timer_vars
    /\ UNCHANGED <<backend, IRQ_HANDLER_TABLE, TIMER_HANDLER, GIC_V3, guard,
                   panic, enable_calls, reg_true, api_true, ipi_pending>>

\* gic-bak.rs:56-59  init_secondary(): GICC.init() only.
GicV2InitSecondary(c) ==
    /\ Ready(c)
    /\ backend = "gicv2"
    /\ frame' = [frame EXCEPT ![c] =
          [NewFrame("init_secondary", "done", NoCause, 0, NoHandler)
             EXCEPT !.ret = "unit"]]
    /\ UNCHANGED timer_vars
    /\ UNCHANGED <<backend, IRQ_HANDLER_TABLE, TIMER_HANDLER, GIC_V3,
                   intc_state, guard, panic, enable_calls, reg_true,
                   api_true>>

\* ------------------------------------------- RISC-V IPI and PLIC stubs
\* riscv irq.rs:93-98  send_ipi(vector, dest): the SBI call raises the
\* supervisor software interrupt of hart dest.
RiscvSendIpi(c, dest) ==
    /\ Ready(c)
    /\ backend = "riscv"
    /\ ipi_pending' = ipi_pending \cup {dest}
    /\ frame' = [frame EXCEPT ![c] =
          [NewFrame("send_ipi", "done", NoCause, 0, NoHandler)
             EXCEPT !.ret = "unit"]]
    /\ UNCHANGED timer_vars
    /\ UNCHANGED <<backend, IRQ_HANDLER_TABLE, TIMER_HANDLER, GIC_V3, enabled,
                   sgi_unmasked, guard, panic, enable_calls, reg_true,
                   api_true>>

\* riscv irq.rs:100-103  get_and_acknowledge_interrupt(): unimplemented!()
RiscvGetAndAcknowledgeInterrupt(c) ==
    /\ Ready(c)
    /\ backend = "riscv"
    /\ panic' = "not implemented"
    /\ frame' = [frame EXCEPT ![c] =
          NewFrame("get_and_acknowledge_interrupt", "panicked", NoCause, 0,
                   NoHandler)]
    /\ UNCHANGED timer_vars
    /\ UNCHANGED <<backend, IRQ_HANDLER_TABLE, TIMER_HANDLER, GIC_V3,
                   intc_state, guard, enable_calls, reg_true, api_true>>

\* riscv irq.rs:105-109  end_of_interrupt(irq): the unimplemented!() is
\* commented out; sbi_rt::legacy::clear_ipi() clears the calling hart's
\* pending software interrupt, and the function returns.
RiscvEndOfInterrupt(c, irq) ==
    /\ Ready(c)
    /\ backend = "riscv"
    /\ ipi_pending' = ipi_pending \ {c}
    /\ frame' = [frame EXCEPT ![c] =
          [NewFrame("end_of_interrupt", "done", NoCause, irq, NoHandler)
             EXCEPT !.ret = "unit"]]
    /\ UNCHANGED timer_vars
    /\ UNCHANGED <<backend, IRQ_HANDLER_TABLE, TIMER_HANDLER, GIC_V3, enabled,
                   sgi_unmasked, guard, panic, enable_calls, reg_true,
                   api_true>>

\* ------------------------------------------------------- int_ratio::Ratio
\* A ratio numerator/denominator held as mult / 2^shift (mult a u32).
Ratio_zero ==
    [numerator |-> BZero(4), denominator |-> BZero(4), mult |-> BZero(4),
     shift |-> 0]

\* The largest shift (from 32 down) whose rounded multiplier fits in a u32.
RECURSIVE Ratio_new_loop(_, _, _)
Ratio_new_loop(numerator, denominator, shift) ==
    LET den  == BResize(denominator, 8)
        mult == BDiv(BAdd(BShl(BResize(numerator, 8), shift), BShr(den, 1)),
                     den)
    IN  IF BLe(mult, U32_MAX) \/ shift = 0
        THEN [mult |-> mult, shift |-> shift]
        ELSE Ratio_new_loop(numerator, denominator, shift - 1)

\* Halve an even multiplier while the shift allows it.
RECURSIVE Ratio_new_reduce(_, _)
Ratio_new_reduce(mult, shift) ==
    IF mult[1] % 2 = 0 /\ shift > 0
    THEN Ratio_new_reduce(BShr(mult, 1), shift - 1)
    ELSE [mult |-> mult, shift |-> shift]

\* Ratio::new asserts !(denominator == 0 && numerator != 0).
Ratio_new_panics(numerator, denominator) ==
    BIsZero(denominator) /\ ~BIsZero(numerator)

Ratio_new(numerator, denominator) ==
    IF BIsZero(numerator)
    THEN [numerator |-> numerator, denominator |-> denominator,
          mult |-> BZero(4), shift |-> 0]
    ELSE LET l == Ratio_new_loop(numerator, denominator, 32)
             r == Ratio_new_reduce(l.mult, l.shift)
         IN  [numerator |-> numerator, denominator |-> denominator,
              mult |-> BResize(r.mult, 4), shift |-> r.shift]

Ratio_inverse(r) == Ratio_new(r.denominator, r.numerator)

\* ((value as u128 * mult as u128) >> shift) as u64
Ratio_mul_trunc(r, value) ==
    BResize(BShr(BMul(BResize(value, 12), r.mult), r.shift), 8)

\* ------------------------------------------------- aarch64 generic timer
\* The timer registers are per core; one core's registers are modelled.
NANOS_PER_SEC == 1000000000

\* generic_timer.rs:22-24
ticks_to_nanos(ticks) == Ratio_mul_trunc(CNTPCT_TO_NANOS_RATIO, ticks)

\* generic_timer.rs:28-30
nanos_to_ticks(nanos) == Ratio_mul_trunc(NANOS_TO_CNTPCT_RATIO, nanos)

\* Counter frequencies in Hz, counter values and deadlines (ns) tried.
FreqInputs == {62500000, 1000000000}

TickInputs ==
    {U64(0, 0, 0, 1), U64(0, 0, 0, 1000), U64(0, 1, 0, 0),
     U64(32768, 0, 0, 0)}

DeadlineInputs ==
    {U64_ZERO, U64(0, 0, 0, 16000), U64(0, 16, 0, 0),
     U64(65535, 65535, 65535, 65535)}

NoOneshot ==
    [called |-> FALSE, deadline_ns |-> U64_ZERO, cnptct |-> U64_ZERO,
     cnptct_deadline |-> U64_ZERO, wrote |-> FALSE, tval |-> U64_ZERO,
     rearm |-> FALSE, prev_later |-> FALSE]

\* The two contexts of the core: its thread, and the timer interrupt handler
\* that preempts it.  The handler runs to its end before the thread resumes.
Contexts == {"thread", "irq"}

Running(ctx) ==
    /\ panic = "none"
    /\ IF ctx = "irq" THEN tpc.irq # "none" ELSE tpc.irq = "none"

\* The thread is not inside a timer call and may start one.
ThreadIdle == Running("thread") /\ tpc.thread = "idle"

NoRtc == [present |-> FALSE, secs |-> 0]

\* Seconds since the epoch the RTC reports, when there is one.
RtcInputs == {NoRtc, [present |-> TRUE, secs |-> 1700000000]}

\* generic_timer.rs:73-76  epoch_time_nanos - ticks_to_nanos(current_ticks());
\* the subtraction overflows when the monotonic time is beyond the RTC's.
epoch_offset(secs, monotonic_nanos) ==
    LET epoch_time_nanos ==
           BResize(BMul(BFromNat(secs, 8), BFromNat(NANOS_PER_SEC, 4)), 8)
    IN  [overflow |-> BLt(epoch_time_nanos, monotonic_nanos),
         value |-> BSub(epoch_time_nanos, monotonic_nanos)]

\* generic_timer.rs:54-79  init_early; it runs once, in the boot sequence.
InitEarly ==
    /\ ThreadIdle
    /\ ~init_early_done
    /\ LET freq == BResize(CNTFRQ_EL0, 4)
           nanos_per_sec == BFromNat(NANOS_PER_SEC, 4)
           to_nanos == Ratio_new(nanos_per_sec, freq)
           e == epoch_offset(rtc.secs, Ratio_mul_trunc(to_nanos, CNTPCT_EL0))
       IN  IF Ratio_new_panics(nanos_per_sec, freq)
           THEN /\ panic' = "assertion failed"
                /\ UNCHANGED <<CNTPCT_TO_NANOS_RATIO, NANOS_TO_CNTPCT_RATIO,
                               init_early_done, RTC_EPOCHOFFSET_NANOS>>
           ELSE /\ CNTPCT_TO_NANOS_RATIO' = to_nanos
                /\ NANOS_TO_CNTPCT_RATIO' = Ratio_inverse(to_nanos)
                /\ IF ~rtc.present
                   THEN /\ init_early_done' = TRUE
                        /\ UNCHANGED <<RTC_EPOCHOFFSET_NANOS, panic>>
                   ELSE IF e.overflow /\ debug_assertions
                   THEN /\ panic' = "attempt to subtract with overflow"
                        /\ UNCHANGED <<init_early_done, RTC_EPOCHOFFSET_NANOS>>
                   ELSE /\ RTC_EPOCHOFFSET_NANOS' = e.value
                        /\ init_early_done' = TRUE
                        /\ UNCHANGED panic
    /\ UNCHANGED <<CNTFRQ_EL0, CNTPCT_EL0, CNTP_TVAL_EL0, debug_assertions,
                   oneshot>>
    /\ UNCHANGED <<CNTP_CTL_EL0, TIMER, TIMER_lock, rtc, timer_cond, daif_i,
                   tpc, tdone, conv>>
    /\ UNCHANGED irq_vars

\* The hardware counter CNTPCT_EL0 advances.
Tick(t) ==
    /\ panic = "none"
    /\ BLt(CNTPCT_EL0, t)
    /\ CNTPCT_EL0' = t
    /\ UNCHANGED <<CNTFRQ_EL0, CNTP_TVAL_EL0, CNTPCT_TO_NANOS_RATIO,
                   NANOS_TO_CNTPCT_RATIO, init_early_done, debug_assertions,
                   oneshot, timer_ctl_vars>>
    /\ UNCHANGED <<irq_vars, panic>>

\* Hardware: a write of v to CNTP_TVAL_EL0 restarts the countdown; it has
\* reached zero at once when v is 0.
TvalWritten(v) == BIsZero(v)

\* A build that drops the comparison and always subtracts.
oneshot_tval_NoPastCheck(cnptct, cnptct_deadline) ==
    LET interval == BSub(cnptct_deadline, cnptct)
    IN  [assert_ok |-> BLe(interval, U32_MAX), tval |-> interval]

\* A timer that keeps the earlier of the pending countdown and the new one.
oneshot_tval_KeepEarlier(cnptct, cnptct_deadline) ==
    LET interval == IF BLt(cnptct, cnptct_deadline)
                    THEN BSub(cnptct_deadline, cnptct)
                    ELSE U64_ZERO
        pending == oneshot.called /\ oneshot.wrote /\ ~timer_cond
    IN  [assert_ok |-> BLe(interval, U32_MAX),
         tval |-> IF pending /\ BLt(CNTP_TVAL_EL0, interval)
                  THEN CNTP_TVAL_EL0 ELSE interval]

\* generic_timer.rs:44-50  the value set_oneshot_timer writes, and whether
\* the debug assertion on it holds.
oneshot_tval(cnptct, cnptct_deadline) ==
    IF BLt(cnptct, cnptct_deadline)
    THEN LET interval == BSub(cnptct_deadline, cnptct)
         IN  [assert_ok |-> BLe(interval, U32_MAX), tval |-> interval]
    ELSE [assert_ok |-> TRUE, tval |-> U64_ZERO]

\* generic_timer.rs:41-51  set_oneshot_timer(deadline_ns)
SetOneshotTimer(deadline_ns) ==
    /\ ThreadIdle
    /\ LET cnptct == CNTPCT_EL0
           cnptct_deadline == nanos_to_ticks(deadline_ns)
           r == oneshot_tval(cnptct, cnptct_deadline)
           call == [called |-> TRUE, deadline_ns |-> deadline_ns,
                    cnptct |-> cnptct, cnptct_deadline |-> cnptct_deadline,
                    wrote |-> TRUE, tval |-> r.tval,
                    rearm |-> oneshot.called /\ oneshot.wrote /\ ~timer_cond,
                    prev_later |-> BLt(deadline_ns, oneshot.deadline_ns)]
       IN  IF debug_assertions /\ ~r.assert_ok
           THEN /\ panic' = "assertion failed"
                /\ oneshot' = [call EXCEPT !.wrote = FALSE]
                /\ UNCHANGED <<CNTP_TVAL_EL0, timer_cond>>
           ELSE /\ CNTP_TVAL_EL0' = r.tval
                /\ timer_cond' = TvalWritten(r.tval)
                /\ oneshot' = call
                /\ UNCHANGED panic
    /\ UNCHANGED <<CNTFRQ_EL0, CNTPCT_EL0, CNTPCT_TO_NANOS_RATIO,
                   NANOS_TO_CNTPCT_RATIO, init_early_done, debug_assertions>>
    /\ UNCHANGED <<CNTP_CTL_EL0, TIMER, TIMER_lock, RTC_EPOCHOFFSET_NANOS,
                   rtc, daif_i, tpc, tdone, conv>>
    /\ UNCHANGED irq_vars

\* A build that returns the wall-clock time instead of the stored offset.
epochoffset_nanos_AddsNow ==
    BAdd(RTC_EPOCHOFFSET_NANOS, ticks_to_nanos(CNTPCT_EL0))

\* generic_timer.rs:33-35
epochoffset_nanos == RTC_EPOCHOFFSET_NANOS

NoConv ==
    [called |-> FALSE, ticks |-> U64_ZERO, nanos |-> U64_ZERO,
     back |-> U64_ZERO, epochoffset |-> U64_ZERO]

\* generic_timer.rs:20-35  a clock reading by thread code: ticks_to_nanos of
\* a tick count, nanos_to_ticks of the result, and epochoffset_nanos().
\* The three functions only read the statics.
ReadClock(ticks) ==
    /\ ThreadIdle
    /\ LET nanos == ticks_to_nanos(ticks)
       IN  conv' = [called |-> TRUE, ticks |-> ticks, nanos |-> nanos,
                    back |-> nanos_to_ticks(nanos),
                    epochoffset |-> epochoffset_nanos]
    /\ UNCHANGED <<CNTFRQ_EL0, CNTPCT_EL0, CNTP_TVAL_EL0, CNTPCT_TO_NANOS_RATIO,
                   NANOS_TO_CNTPCT_RATIO, init_early_done, debug_assertions,
                   oneshot>>
    /\ UNCHANGED <<CNTP_CTL_EL0, TIMER, TIMER_lock, RTC_EPOCHOFFSET_NANOS,
                   rtc, timer_cond, daif_i, tpc, tdone>>
    /\ UNCHANGED <<irq_vars, panic>>

\* ------------------------------------- periodic timer, lock and interrupt
\* gic.rs:14, gic-bak.rs:10 (PPI 14)
TIMER_IRQ_NUM == 30

\* generic_timer.rs:86  init(32)
NUM_PER_SEC == 32

NoTimerCalls == [reset_timer |-> 0, init_percpu |-> 0]

\* History: one more completed call of op (counted up to 2).
Completed(op) ==
    tdone' = [tdone EXCEPT ![op] = IF @ < 2 THEN @ + 1 ELSE @]

\* CNTP_CTL_EL0.get(): ENABLE and IMASK as last written; ISTATUS is set by
\* the hardware while the timer is enabled and its countdown is at zero.
CNTP_CTL_EL0_get ==
    CNTP_CTL_EL0 \cup
       (IF timer_cond /\ "ENABLE" \in CNTP_CTL_EL0 THEN {"ISTATUS"} ELSE {})

\* CNTP_CTL_EL0.set(bits): ISTATUS is read-only.
CNTP_CTL_EL0_set(bits) == bits \cap {"ENABLE", "IMASK"}

\* Hardware: the countdown reaches zero.
TimerExpire ==
    /\ panic = "none"
    /\ ~timer_cond
    /\ timer_cond' = TRUE
    /\ UNCHANGED <<CNTFRQ_EL0, CNTPCT_EL0, CNTP_TVAL_EL0, CNTPCT_TO_NANOS_RATIO,
                   NANOS_TO_CNTPCT_RATIO, init_early_done, debug_assertions,
                   oneshot>>
    /\ UNCHANGED <<CNTP_CTL_EL0, TIMER, TIMER_lock, RTC_EPOCHOFFSET_NANOS,
                   rtc, daif_i, tpc, tdone, conv>>
    /\ UNCHANGED <<irq_vars, panic>>

\* What the timer operations below never touch.
TimerStaticsUnchanged ==
    UNCHANGED <<CNTFRQ_EL0, CNTPCT_EL0, CNTPCT_TO_NANOS_RATIO,
                NANOS_TO_CNTPCT_RATIO, init_early_done, debug_assertions,
                oneshot, RTC_EPOCHOFFSET_NANOS, rtc, conv>>

SetPc(ctx, pc) == tpc' = [tpc EXCEPT ![ctx] = pc]

\* The kernel unmasks interrupts on the core once it has booted.
EnableIrqs ==
    /\ ThreadIdle
    /\ daif_i
    /\ daif_i' = FALSE
    /\ TimerStaticsUnchanged
    /\ UNCHANGED <<CNTP_TVAL_EL0, CNTP_CTL_EL0, TIMER, TIMER_lock, timer_cond,
                   tpc, tdone>>
    /\ UNCHANGED <<irq_vars, panic>>

\* The core takes the timer interrupt: the timer asserts it (ISTATUS set,
\* IMASK clear), the controller forwards the line and the core has interrupts
\* unmasked.  Interrupts are masked on entry; the handler calls reset_timer.
TakeTimerIrq ==
    /\ panic = "none"
    /\ tpc.irq = "none"
    /\ ~daif_i
    /\ "ISTATUS" \in CNTP_CTL_EL0_get
    /\ "IMASK" \notin CNTP_CTL_EL0_get
    /\ TIMER_IRQ_NUM \in enabled
    /\ daif_i' = TRUE
    /\ SetPc("irq", "reset_lock")
    /\ TimerStaticsUnchanged
    /\ UNCHANGED <<CNTP_TVAL_EL0, CNTP_CTL_EL0, TIMER, TIMER_lock, timer_cond,
                   tdone>>
    /\ UNCHANGED <<irq_vars, panic>>

\* A call of reset_timer() from the thread.
CallResetTimer ==
    /\ ThreadIdle
    /\ SetPc("thread", "reset_lock")
    /\ TimerStaticsUnchanged
    /\ UNCHANGED <<CNTP_TVAL_EL0, CNTP_CTL_EL0, TIMER, TIMER_lock, timer_cond,
                   daif_i, tdone>>
    /\ UNCHANGED <<irq_vars, panic>>

\* generic_timer.rs:92  TIMER.lock(): a spin::Mutex; the caller spins while
\* the lock is held.  Nothing is done to the core's interrupt mask.
ResetLock(ctx) ==
    /\ Running(ctx)
    /\ tpc[ctx] = "reset_lock"
    /\ TIMER_lock = "free"
    /\ TIMER_lock' = ctx
    /\ SetPc(ctx, "reset_clear_irq")
    /\ TimerStaticsUnchanged
    /\ UNCHANGED <<CNTP_TVAL_EL0, CNTP_CTL_EL0, TIMER, timer_cond, daif_i,
                   tdone>>
    /\ UNCHANGED <<irq_vars, panic>>

\* A build whose clear_irq masks the timer whatever ISTATUS is.
clear_irq_AlwaysMask(ctrl) == ctrl \cup {"IMASK"}

\* generic_timer.rs:144-151  GenericTimer::clear_irq: the control value after
\* it, given the value read.
clear_irq(ctrl) ==
    IF "ISTATUS" \in ctrl
    THEN CNTP_CTL_EL0_set(ctrl \cup {"IMASK"})
    ELSE ctrl

\* generic_timer.rs:93  timer.clear_irq()
ResetClearIrq(ctx) ==
    /\ Running(ctx)
    /\ tpc[ctx] = "reset_clear_irq"
    /\ CNTP_CTL_EL0' = clear_irq(CNTP_CTL_EL0_get)
    /\ SetPc(ctx, "reset_reload")
    /\ TimerStaticsUnchanged
    /\ UNCHANGED <<CNTP_TVAL_EL0, TIMER, TIMER_lock, timer_cond, daif_i,
                   tdone>>
    /\ UNCHANGED <<irq_vars, panic>>

\* generic_timer.rs:154-156  the control value reload_count writes.
reload_count_ctrl(ctrl) == (ctrl \cup {"ENABLE"}) \ {"IMASK"}

\* generic_timer.rs:94-95  timer.reload_count(), then the lock guard is
\* dropped and reset_timer returns (from the handler: back to the thread,
\* which had interrupts unmasked).
ResetReload(ctx) ==
    /\ Running(ctx)
    /\ tpc[ctx] = "reset_reload"
    /\ CNTP_TVAL_EL0' = TIMER.reload_count
    /\ timer_cond' = TvalWritten(TIMER.reload_count)
    /\ CNTP_CTL_EL0' = CNTP_CTL_EL0_set(reload_count_ctrl(CNTP_CTL_EL0_get))
    /\ TIMER_lock' = "free"
    /\ IF ctx = "irq"
       THEN SetPc(ctx, "none") /\ daif_i' = FALSE
       ELSE SetPc(ctx, "idle") /\ UNCHANGED daif_i
    /\ Completed("reset_timer")
    /\ TimerStaticsUnchanged
    /\ UNCHANGED TIMER
    /\ UNCHANGED <<irq_vars, panic>>

\* A call of init_percpu() from the thread.
CallInitPercpu ==
    /\ ThreadIdle
    /\ SetPc("thread", "percpu_lock")
    /\ TimerStaticsUnchanged
    /\ UNCHANGED <<CNTP_TVAL_EL0, CNTP_CTL_EL0, TIMER, TIMER_lock, timer_cond,
                   daif_i, tdone>>
    /\ UNCHANGED <<irq_vars, panic>>

\* generic_timer.rs:86  TIMER.lock()
PercpuLock ==
    /\ Running("thread")
    /\ tpc.thread = "percpu_lock"
    /\ TIMER_lock = "free"
    /\ TIMER_lock' = "thread"
    /\ SetPc("thread", "percpu_init")
    /\ TimerStaticsUnchanged
    /\ UNCHANGED <<CNTP_TVAL_EL0, CNTP_CTL_EL0, TIMER, timer_cond, daif_i,
                   tdone>>
    /\ UNCHANGED <<irq_vars, panic>>

\* A build that keeps the frequency itself as the reload count.
GenericTimer_reload_NoDivide(clk_freq, num_per_sec) == clk_freq

\* generic_timer.rs:122  clk_freq / num_per_sec as u64
GenericTimer_reload(clk_freq, num_per_sec) ==
    BDiv(clk_freq, BFromNat(num_per_sec, 4))

\* generic_timer.rs:119-130  GenericTimer::init(32) under the lock, which the
\* end of the statement releases.
PercpuInit ==
    /\ Running("thread")
    /\ tpc.thread = "percpu_init"
    /\ LET clk_freq == CNTFRQ_EL0
           reload == GenericTimer_reload(clk_freq, NUM_PER_SEC)
       IN  /\ TIMER' = [clk_freq |-> clk_freq, reload_count |-> reload]
           /\ CNTP_TVAL_EL0' = reload
           /\ timer_cond' = TvalWritten(reload)
    /\ CNTP_CTL_EL0' = CNTP_CTL_EL0_set(reload_count_ctrl(CNTP_CTL_EL0_get))
    /\ TIMER_lock' = "free"
    /\ SetPc("thread", "percpu_enable")
    /\ TimerStaticsUnchanged
    /\ UNCHANGED <<daif_i, tdone>>
    /\ UNCHANGED <<irq_vars, panic>>

\* generic_timer.rs:87  set_enable(TIMER_IRQ_NUM, true), and the return.
PercpuEnable ==
    /\ Running("thread")
    /\ tpc.thread = "percpu_enable"
    /\ set_enable_lock_free
    /\ IF set_enable_panics
       THEN /\ panic' = "unwrap on None"
            /\ UNCHANGED <<enabled, tpc, tdone>>
       ELSE /\ enabled' = set_enable(TIMER_IRQ_NUM)
            /\ SetPc("thread", "idle")
            /\ Completed("init_percpu")
            /\ UNCHANGED panic
    /\ TimerStaticsUnchanged
    /\ UNCHANGED <<CNTP_TVAL_EL0, CNTP_CTL_EL0, TIMER, TIMER_lock, timer_cond,
                   daif_i>>
    /\ UNCHANGED <<backend, IRQ_HANDLER_TABLE, TIMER_HANDLER, GIC_V3, frame,
                   guard, calls, enable_calls, reg_true, api_true,
                   sgi_unmasked, ipi_pending>>

\* ------------------------------------------------------------------ Init
InitIrq ==
    /\ IRQ_HANDLER_TABLE = EmptyTable
    /\ TIMER_HANDLER = NoHandler
    /\ GIC_V3 = "None"
    /\ enabled = {}
    /\ sgi_unmasked = {}
    /\ ipi_pending = {}
    /\ frame = [c \in Cores |-> IdleFrame]
    /\ guard = [c \in Cores |-> FALSE]
    /\ panic = "none"
    /\ calls = 0
    /\ enable_calls = {}
    /\ reg_true = [l \in LineInputs |-> <<>>]
    /\ api_true = {}

\* generic_timer.rs:9-10  the ratios start as Ratio::zero().
InitTimerStatics ==
    /\ CNTPCT_EL0 = U64_ZERO
    /\ CNTP_TVAL_EL0 = U64_ZERO
    /\ CNTPCT_TO_NANOS_RATIO = Ratio_zero
    /\ NANOS_TO_CNTPCT_RATIO = Ratio_zero
    /\ init_early_done = FALSE
    /\ oneshot = NoOneshot
    /\ CNTP_CTL_EL0 = {}
    /\ TIMER = [clk_freq |-> U64_ZERO, reload_count |-> U64_ZERO]
    /\ TIMER_lock = "free"
    /\ RTC_EPOCHOFFSET_NANOS = U64_ZERO
    /\ timer_cond = FALSE
    /\ daif_i = TRUE
    /\ tpc = [thread |-> "idle", irq |-> "none"]
    /\ tdone = NoTimerCalls
    /\ conv = NoConv

Init ==
    /\ backend \in Backends
    /\ InitIrq
    /\ InitTimerStatics
    /\ CNTFRQ_EL0 = BFromNat(62500000, 8)
    /\ debug_assertions = TRUE
    /\ rtc = NoRtc

Next ==
    \/ \E c \in Cores, l \in LineInputs, h \in Handlers :
          CallRegisterHandlerCommon(c, l, h)
    \/ \E c \in Cores, l \in LineInputs : CallDispatchIrqCommon(c, l)
    \/ \E c \in Cores, x \in CauseInputs \cup {NoCause}, l \in LineInputs,
          h \in Handlers : CallRegisterHandler(c, x, l, h)
    \/ \E c \in Cores, x \in CauseInputs \cup {NoCause} : CallHandlerIrq(c, x)
    \/ \E c \in Cores : InitPrimary(c)
    \/ \E c \in Cores : InitPrimarySetup(c)
    \/ \E c \in Cores : GicV2InitPrimary(c)
    \/ \E c \in Cores : GicV2InitSecondary(c)
    \/ \E c \in Cores, dest \in Cores : RiscvSendIpi(c, dest)
    \/ \E c \in Cores : RiscvGetAndAcknowledgeInterrupt(c)
    \/ \E c \in Cores : RiscvEndOfInterrupt(c, StripIntcBase(S_EXT))
    \/ \E c \in Cores : RegCommonCas(c)
    \/ \E c \in Cores : RegCommonEnable(c)
    \/ \E c \in Cores : DispatchCommonHandle(c)
    \/ \E c \in Cores : TimerCheck(c)
    \/ \E c \in Cores : TimerInitOnce(c)
    \/ \E c \in Cores : TimerCall(c)
    \/ \E c \in Cores, v \in VectorInputs, p \in BOOLEAN :
          IrqDispatch(c, v, p)
    \/ \E c \in Cores : IrqDrop(c)
    \/ \E c \in Cores : IrqUnwind(c)

Spec == Init /\ [][Next]_vars

\* The IRQ trap entry and the public registration, on every backend.
NextIrqEntry ==
    \/ \E c \in Cores, x \in CauseInputs \cup {NoCause}, l \in LineInputs,
          h \in Handlers : CallRegisterHandler(c, x, l, h)
    \/ \E c \in Cores, x \in CauseInputs \cup {NoCause} : CallHandlerIrq(c, x)
    \/ \E c \in Cores : RegCommonCas(c)
    \/ \E c \in Cores : RegCommonEnable(c)
    \/ \E c \in Cores : DispatchCommonHandle(c)
    \/ \E c \in Cores : TimerCheck(c)
    \/ \E c \in Cores : TimerInitOnce(c)
    \/ \E c \in Cores : TimerCall(c)
    \/ \E c \in Cores, v \in VectorInputs, p \in BOOLEAN :
          IrqDispatch(c, v, p)
    \/ \E c \in Cores : IrqDrop(c)
    \/ \E c \in Cores : IrqUnwind(c)

SpecIrqEntry == Init /\ [][NextIrqEntry]_vars

\* The architecture-neutral layer alone: direct calls of
\* register_handler_common and dispatch_irq_common on every backend (and the
\* GICv3 controller initialization set_enable depends on).
NextCommon ==
    \/ \E c \in Cores, l \in LineInputs, h \in Handlers :
          CallRegisterHandlerCommon(c, l, h)
    \/ \E c \in Cores, l \in LineInputs : CallDispatchIrqCommon(c, l)
    \/ \E c \in Cores : InitPrimary(c)
    \/ \E c \in Cores : InitPrimarySetup(c)
    \/ \E c \in Cores : RegCommonCas(c)
    \/ \E c \in Cores : RegCommonEnable(c)
    \/ \E c \in Cores : DispatchCommonHandle(c)

SpecCommon == Init /\ [][NextCommon]_vars

\* The RISC-V build: the public register_handler and handler_irq entry points
\* over the trap-cause backend.
InitRiscv == Init /\ backend = "riscv"

NextRiscv ==
    \/ \E c \in Cores, x \in CauseInputs, h \in Handlers :
          CallRegisterHandler(c, x, 0, h)
    \/ \E c \in Cores, x \in CauseInputs : CallHandlerIrq(c, x)
    \/ \E c \in Cores : RegCommonCas(c)
    \/ \E c \in Cores : RegCommonEnable(c)
    \/ \E c \in Cores : DispatchCommonHandle(c)
    \/ \E c \in Cores : TimerCheck(c)
    \/ \E c \in Cores : TimerInitOnce(c)
    \/ \E c \in Cores : TimerCall(c)
    \/ \E c \in Cores : IrqDispatch(c, 0, TRUE)
    \/ \E c \in Cores : IrqDrop(c)

SpecRiscv == InitRiscv /\ [][NextRiscv]_vars

\* The aarch64 generic timer of one core.
InitTimer ==
    /\ backend \in {"gicv2", "gicv3"}
    /\ InitIrq
    /\ InitTimerStatics
    /\ CNTFRQ_EL0 \in {BFromNat(f, 8) : f \in FreqInputs}
    /\ debug_assertions \in BOOLEAN
    /\ rtc = NoRtc

NextTimer ==
    \/ InitEarly
    \/ \E t \in TickInputs : Tick(t)
    \/ \E d \in DeadlineInputs : SetOneshotTimer(d)

SpecTimer == InitTimer /\ [][NextTimer]_vars

\* The periodic timer of one core with its lock, its interrupt and the boot
\* hooks it depends on.
\* The clock conversions on their own.  Besides the two frequencies above:
\* 24 MHz and 54 MHz counters, whose ratios are not powers of two.
RoundTripFreqs == FreqInputs \cup {24000000, 54000000}

\* Tick counts converted: small ones, counts around 2^30 (under a minute of
\* uptime at these frequencies), 2^32, and counts at and beyond 2^60.
RoundTripTicks ==
    {U64_ZERO, U64(0, 0, 0, 1), U64(0, 0, 0, 1000), U64(0, 0, 16383, 65535),
     U64(0, 0, 24576, 0), U64(0, 1, 0, 0), U64(4095, 65535, 65535, 65535),
     U64(4096, 0, 0, 0), U64(32768, 0, 0, 0)}

InitRoundTrip ==
    /\ backend \in {"gicv2", "gicv3"}
    /\ InitIrq
    /\ InitTimerStatics
    /\ CNTFRQ_EL0 \in {BFromNat(f, 8) : f \in RoundTripFreqs}
    /\ debug_assertions \in BOOLEAN
    /\ rtc \in RtcInputs

NextRoundTrip ==
    \/ InitEarly
    \/ \E t \in RoundTripTicks : ReadClock(t)

SpecRoundTrip == InitRoundTrip /\ [][NextRoundTrip]_vars

\* The timer operations of thread code together with the clock readings.
NextEpoch ==
    \/ InitEarly
    \/ Tick(U64(0, 0, 0, 1000))
    \/ SetOneshotTimer(U64(0, 0, 0, 16000))
    \/ ReadClock(U64(0, 0, 0, 1000))
    \/ TimerExpire
    \/ CallResetTimer
    \/ ResetLock("thread")
    \/ ResetClearIrq("thread")
    \/ ResetReload("thread")
    \/ CallInitPercpu
    \/ PercpuLock
    \/ PercpuInit
    \/ PercpuEnable

InitEpoch ==
    /\ backend \in {"gicv2", "gicv3"}
    /\ InitIrq
    /\ InitTimerStatics
    /\ CNTFRQ_EL0 \in {BFromNat(f, 8) : f \in FreqInputs}
    /\ debug_assertions \in BOOLEAN
    /\ rtc \in RtcInputs

SpecEpoch == InitEpoch /\ [][NextEpoch]_vars

NextTimerCtl ==
    \/ InitEarly
    \/ Tick(U64(32768, 0, 0, 0))
    \/ SetOneshotTimer(U64(0, 0, 0, 16000))
    \/ InitPrimary(1)
    \/ InitPrimarySetup(1)
    \/ TimerExpire
    \/ EnableIrqs
    \/ TakeTimerIrq
    \/ CallResetTimer
    \/ \E ctx \in Contexts : ResetLock(ctx)
    \/ \E ctx \in Contexts : ResetClearIrq(ctx)
    \/ \E ctx \in Contexts : ResetReload(ctx)
    \/ CallInitPercpu
    \/ PercpuLock
    \/ PercpuInit
    \/ PercpuEnable

SpecTimerCtl == InitTimer /\ [][NextTimerCtl]_vars

\* ================================================================ claims
\* A frame whose call runs register_handler_common on frame.line.
ViaRegisterCommon(f) ==
    \/ f.op = "register_handler_common"
    \/ /\ f.op = "register_handler"
       /\ \/ backend = "gicv2"
          \/ backend = "riscv" /\ with_cause(f.cause) = "EXT"

ValidLines == {l \in LineInputs : l < MAX_IRQ_COUNT}

\* The step in which core c's dispatch_irq_common runs the table lookup.
HandleStep(c) == frame[c].pc = "disp_handle" /\ frame'[c].pc # "disp_handle"

\* ----------------------------------------------------------------- C1
C1_State ==
    \A l \in ValidLines :
       /\ Len(reg_true[l]) <= 1
       /\ Len(reg_true[l]) = 1 => Slot(IRQ_HANDLER_TABLE, l) = reg_true[l][1]
       \* an occupied slot has one winner: returned true, or still between
       \* its table write and its return
       /\ Slot(IRQ_HANDLER_TABLE, l) # NoHandler =>
             \/ reg_true[l] = <<Slot(IRQ_HANDLER_TABLE, l)>>
             \/ \E c \in Cores :
                   /\ ViaRegisterCommon(frame[c])
                   /\ frame[c].pc \in {"reg_enable", "panicked"}
                   /\ frame[c].line = l
                   /\ frame[c].h = Slot(IRQ_HANDLER_TABLE, l)
       /\ \A c \in Cores :
             (ViaRegisterCommon(frame[c]) /\ frame[c].line = l
                /\ frame[c].pc = "done") =>
                /\ frame[c].ret \in {"true", "false"}
                /\ frame[c].ret = "true" => reg_true[l] = <<frame[c].h>>
                /\ frame[c].ret = "false" =>
                      Slot(IRQ_HANDLER_TABLE, l) # NoHandler

C1_Step ==
    /\ \A l \in DOMAIN IRQ_HANDLER_TABLE :
          /\ l \in DOMAIN IRQ_HANDLER_TABLE'
          /\ IRQ_HANDLER_TABLE'[l] = IRQ_HANDLER_TABLE[l]
    /\ \A c \in Cores :
          (HandleStep(c) /\ frame[c].line \in ValidLines
             /\ reg_true[frame[c].line] # <<>>) =>
             frame'[c].inv =
                Append(frame[c].inv, reg_true[frame[c].line][1])

\* C1: for every line L < MAX_IRQ_COUNT, among any interleaved or repeated
\* register_handler_common(L, h_i) calls at most one returns true and every
\* other completed call returns false, with the slot held by the one winner;
\* an installed handler is never altered, and a dispatch of L that runs after
\* the winner returned invokes the winner's handler.
C1_AtMostOneRegistration == [](C1_State) /\ [][C1_Step]_vars

\* Handler A won line L, a second registration of L with another handler
\* returned false, and a later dispatch of L invoked A.
C1_Witness ==
    \E l \in ValidLines, c, d \in Cores :
       /\ Len(reg_true[l]) = 1
       /\ frame[c].op = "register_handler_common" /\ frame[c].pc = "done"
       /\ frame[c].line = l /\ frame[c].ret = "false"
       /\ frame[c].h # reg_true[l][1]
       /\ frame[d].op = "dispatch_irq_common" /\ frame[d].pc = "done"
       /\ frame[d].line = l /\ frame[d].inv = <<reg_true[l][1]>>

\* ----------------------------------------------------------------- C2
\* C2: whenever register_handler_common has called set_enable(L, true), the
\* table write for L had already succeeded: slot L is occupied, and a
\* dispatch of L finds a handler.
C2_UnmaskAfterTableWrite ==
    \A l \in enable_calls :
       /\ l < MAX_IRQ_COUNT
       /\ Slot(IRQ_HANDLER_TABLE, l) # NoHandler
       /\ HandlerTable_handle(IRQ_HANDLER_TABLE, l) # <<>>

\* A registration has unmasked its line in the GIC distributor.
C2_Witness ==
    \E l \in enable_calls, c \in Cores :
       /\ l \in enabled
       /\ frame[c].pc = "done" /\ frame[c].ret = "true" /\ frame[c].line = l
       /\ ViaRegisterCommon(frame[c])

\* ----------------------------------------------------------------- C3
C3_Step ==
    \A c \in Cores :
       HandleStep(c) =>
          LET l == frame[c].line
              h == Slot(IRQ_HANDLER_TABLE, l)
          IN  IF l < MAX_IRQ_COUNT /\ h # NoHandler
              THEN frame'[c].inv = Append(frame[c].inv, h)
              ELSE /\ frame'[c].inv = frame[c].inv
                   /\ UNCHANGED <<IRQ_HANDLER_TABLE, TIMER_HANDLER, enabled,
                                  enable_calls, GIC_V3>>

C3_State ==
    \A c \in Cores :
       (frame[c].op = "dispatch_irq_common" /\ frame[c].pc = "done") =>
          /\ Len(frame[c].inv) <= 1
          /\ frame[c].line >= MAX_IRQ_COUNT => frame[c].inv = <<>>
          /\ frame[c].inv # <<>> =>
                frame[c].inv = <<Slot(IRQ_HANDLER_TABLE, frame[c].line)>>

\* C3: dispatch_irq_common(L) on a line with a registered handler h invokes
\* h exactly once; on a line with no handler (L >= MAX_IRQ_COUNT included) it
\* invokes nothing and changes neither the table nor the enable state.
C3_DispatchFidelity == [](C3_State) /\ [][C3_Step]_vars

\* One dispatch invoked the registered handler once; another, of a line out
\* of range, invoked nothing.
C3_Witness ==
    \E c, d \in Cores :
       /\ frame[c].op = "dispatch_irq_common" /\ frame[c].pc = "done"
       /\ frame[c].inv # <<>>
       /\ frame[d].op = "dispatch_irq_common" /\ frame[d].pc = "done"
       /\ frame[d].line >= MAX_IRQ_COUNT /\ frame[d].inv = <<>>

\* ----------------------------------------------------------------- C4
C4_State ==
    /\ \A l \in enable_calls : l < MAX_IRQ_COUNT
    /\ \A l \in DOMAIN IRQ_HANDLER_TABLE : l < MAX_IRQ_COUNT
    /\ \A c \in Cores :
          (ViaRegisterCommon(frame[c]) /\ frame[c].line >= MAX_IRQ_COUNT) =>
             /\ frame[c].pc \in {"reg_cas", "done"}
             /\ frame[c].pc = "done" => frame[c].ret = "false"

C4_Step ==
    \A c \in Cores :
       (frame[c].pc = "reg_cas" /\ frame[c].line >= MAX_IRQ_COUNT
          /\ frame'[c] # frame[c]) =>
          UNCHANGED <<IRQ_HANDLER_TABLE, enabled, enable_calls>>

\* C4: register_handler_common(L, h) with L >= MAX_IRQ_COUNT returns false,
\* leaves every table slot unchanged and never calls set_enable.
C4_RangeRejection == [](C4_State) /\ [][C4_Step]_vars

\* An out-of-range registration has returned (false) while another line
\* holds a handler.
C4_Witness ==
    \E c \in Cores :
       /\ frame[c].op = "register_handler_common" /\ frame[c].pc = "done"
       /\ frame[c].line >= MAX_IRQ_COUNT /\ frame[c].ret = "false"
       /\ IRQ_HANDLER_TABLE # EmptyTable

\* ----------------------------------------------------------------- C5
\* The argument of a public register_handler call is a bad line number.
BadLine(f) ==
    IF backend = "riscv"
    THEN with_cause(f.cause) = "panic"
    ELSE f.line >= MAX_IRQ_COUNT

\* The line a public register_handler call targets already holds another
\* handler (the call lost, or will lose, the registration).
AlreadyRegistered(f) ==
    IF backend = "riscv" /\ with_cause(f.cause) = "TIMER"
    THEN TIMER_HANDLER \notin {NoHandler, f.h}
    ELSE /\ ViaRegisterCommon(f)
         /\ Slot(IRQ_HANDLER_TABLE, f.line) \notin {NoHandler, f.h}

\* C5: on every backend, register_handler with a bad line number or for a
\* line that already has a handler does not panic and returns false.
C5_RegisterFailureNonFatal ==
    \A c \in Cores :
       (frame[c].op = "register_handler"
          /\ (BadLine(frame[c]) \/ AlreadyRegistered(frame[c]))) =>
          /\ frame[c].pc # "panicked"
          /\ frame[c].pc = "done" => frame[c].ret = "false"

\* ----------------------------------------------------------------- C6
\* C6: handler_irq for a line with no registered handler (a table-routed
\* line never registered, or the RISC-V timer before any timer handler was
\* registered) does not panic and returns true.
C6_UnhandledDispatchNonFatal ==
    \A c \in Cores :
       (frame[c].op = "handler_irq"
          /\ \/ backend = "gicv2"
             \/ backend = "riscv" /\ frame[c].cause \in {S_TIMER, S_EXT}) =>
          /\ frame[c].pc # "panicked"
          /\ frame[c].pc = "done" => frame[c].ret = "true"

\* ----------------------------------------------------------------- C7
\* C7: on RISC-V, no register_handler(S_TIMER, h) call panics; a call that
\* returned true installed its handler, and the timer handler is never
\* replaced afterwards.
C7_TimerRegistrationOnce ==
    backend = "riscv" =>
       \A c \in Cores :
          (frame[c].op = "register_handler" /\ frame[c].cause = S_TIMER) =>
             /\ frame[c].pc # "panicked"
             /\ frame[c].pc = "done" => frame[c].ret \in {"true", "false"}
             /\ (frame[c].pc = "done" /\ frame[c].ret = "true") =>
                   TIMER_HANDLER = frame[c].h

\* ----------------------------------------------------------------- C8
\* A RISC-V frame whose cause has been through with_cause!.
Decoded(f) ==
    \/ f.op = "register_handler"
    \/ f.op = "handler_irq" /\ f.pc # "irq_dispatch"

\* C8: the RISC-V cause decoder panics for exactly the causes other than
\* S_SOFT, S_TIMER and S_EXT.
C8_DecoderPanicsExactlyOutsideKnown ==
    backend = "riscv" =>
       \A c \in Cores :
          Decoded(frame[c]) =>
             ((frame[c].pc = "panicked" /\ panic = "invalid trap cause")
                <=> frame[c].cause \notin {S_SOFT, S_TIMER, S_EXT})

\* ----------------------------------------------------------------- C9
\* C9: on RISC-V, a trap with cause S_EXT taken after register_handler(S_EXT,
\* h) has returned true invokes h exactly once: registration and dispatch
\* address the same table line.
C9_ExtDispatchInvokesRegistered ==
    backend = "riscv" =>
       \A c \in Cores :
          (/\ frame[c].op = "handler_irq" /\ frame[c].cause = S_EXT
           /\ frame[c].expect # NoHandler
           /\ frame[c].pc \in {"irq_drop", "done"}) =>
             frame[c].inv = <<frame[c].expect>>

\* ----------------------------------------------------------------- C10
\* C10: a set_oneshot_timer(deadline_ns) call made when the counter reads
\* now, with dl = nanos_to_ticks(deadline_ns): if dl <= now it writes exactly
\* 0 to the countdown register; otherwise the value v it writes satisfies
\* now + v = dl without overflow (v = dl - now, not wrapped) and v > 0, and
\* the write is skipped only by the failed debug assertion v <= u32::MAX,
\* which a build with debug assertions checks before every such write.
C10_Step ==
    oneshot' # oneshot =>
       LET now == CNTPCT_EL0
           dl  == nanos_to_ticks(oneshot'.deadline_ns)
           v   == CNTP_TVAL_EL0'
       IN  IF BLe(dl, now)
           THEN oneshot'.wrote /\ v = U64_ZERO /\ panic' = "none"
           ELSE IF oneshot'.wrote
           THEN /\ ~BAddOverflows(now, v)
                /\ BAdd(now, v) = dl
                /\ ~BIsZero(v)
                /\ debug_assertions => BLe(v, U32_MAX)
                /\ panic' = "none"
           ELSE /\ debug_assertions
                /\ BLt(U32_MAX, BSub(dl, now))
                /\ panic' = "assertion failed"
                /\ UNCHANGED CNTP_TVAL_EL0

C10_OneshotInterval == [][C10_Step]_vars

\* After init_early, a call whose deadline (dl ticks, 0 < dl < now) was
\* already in the past wrote 0.
C10_Witness ==
    /\ init_early_done
    /\ oneshot.called /\ oneshot.wrote
    /\ ~BIsZero(oneshot.cnptct_deadline)
    /\ BLt(oneshot.cnptct_deadline, oneshot.cnptct)
    /\ CNTP_TVAL_EL0 = U64_ZERO

\* ----------------------------------------------------------------- C11
\* A step of context ctx from position pc of the timer code to another.
TimerStep(ctx, pc) == tpc[ctx] = pc /\ tpc'[ctx] # pc

\* C11: in every reset_timer() call (from the thread or from the interrupt
\* handler), clear_irq leaves the control register as it is when it reads
\* ISTATUS clear, so IMASK is not set; and when the call returns, the control
\* register has ENABLE set and IMASK clear and the countdown register holds
\* the stored reload count, whatever ISTATUS was: every reset_timer() ends
\* in the same control state.
C11_Step ==
    \A ctx \in Contexts :
       /\ (TimerStep(ctx, "reset_clear_irq")
             /\ "ISTATUS" \notin CNTP_CTL_EL0_get) =>
             /\ CNTP_CTL_EL0' = CNTP_CTL_EL0
             /\ "IMASK" \in CNTP_CTL_EL0_get' => "IMASK" \in CNTP_CTL_EL0_get
       /\ TimerStep(ctx, "reset_reload") =>
             /\ "ENABLE" \in CNTP_CTL_EL0_get'
             /\ "IMASK" \notin CNTP_CTL_EL0_get'
             /\ CNTP_CTL_EL0' = {"ENABLE"}
             /\ CNTP_TVAL_EL0' = TIMER'.reload_count
             /\ TIMER' = TIMER

C11_ResetTimerIdempotent == [][C11_Step]_vars

\* reset_timer() has returned twice after init_percpu stored a positive
\* reload count, and the registers hold the state the claim describes.
C11_Witness ==
    /\ tdone.reset_timer = 2
    /\ tdone.init_percpu >= 1
    /\ ~BIsZero(TIMER.reload_count)
    /\ tpc.thread = "idle" /\ tpc.irq = "none"
    /\ CNTP_CTL_EL0 = {"ENABLE"}
    /\ CNTP_TVAL_EL0 = TIMER.reload_count

\* ----------------------------------------------------------------- C12
\* q = floor(f / d) for 8-byte f, q and a small positive divisor d, stated
\* by multiplication: q * d <= f < q * d + d.
IsFloorDiv(q, f, d) ==
    LET prod == BMul(q, BFromNat(d, 4))
        wide == BResize(f, Len(prod))
    IN  /\ BLe(prod, wide)
        /\ BLt(wide, BAdd(prod, BFromNat(d, Len(prod))))

\* C12: GenericTimer::init in init_percpu() stores the counter frequency and
\* reload_count = floor(frequency / 32), writes that count to the countdown
\* register and leaves the timer enabled with its interrupt unmasked; for a
\* 62,500,000 Hz counter the count is 1,953,125.  When init_percpu() then
\* returns, TIMER_IRQ_NUM is unmasked in the interrupt controller.
C12_Step ==
    /\ TimerStep("thread", "percpu_init") =>
          /\ TIMER'.clk_freq = CNTFRQ_EL0
          /\ IsFloorDiv(TIMER'.reload_count, CNTFRQ_EL0, NUM_PER_SEC)
          /\ CNTFRQ_EL0 = BFromNat(62500000, 8) =>
                TIMER'.reload_count = BFromNat(1953125, 8)
          /\ CNTP_TVAL_EL0' = TIMER'.reload_count
          /\ "ENABLE" \in CNTP_CTL_EL0_get'
          /\ "IMASK" \notin CNTP_CTL_EL0_get'
    /\ (TimerStep("thread", "percpu_enable") /\ panic' = "none") =>
          /\ TIMER_IRQ_NUM \in enabled'
          /\ tpc'.thread = "idle"
          /\ tdone'.init_percpu >= 1

C12_InitPercpuProgramsReload == [][C12_Step]_vars

\* init_percpu() has returned on a 62,500,000 Hz counter: 1,953,125 is
\* stored and TIMER_IRQ_NUM is unmasked.
C12_Witness ==
    /\ tdone.init_percpu >= 1
    /\ tpc.thread = "idle"
    /\ CNTFRQ_EL0 = BFromNat(62500000, 8)
    /\ TIMER.reload_count = BFromNat(1953125, 8)
    /\ TIMER_IRQ_NUM \in enabled
    /\ "ENABLE" \in CNTP_CTL_EL0

\* ----------------------------------------------------------------- C13
\* |a - b| <= 1 for two u64 values.
WithinOne(a, b) ==
    \/ BLe(a, b) /\ BLe(BSub(b, a), U64(0, 0, 0, 1))
    \/ BLe(b, a) /\ BLe(BSub(a, b), U64(0, 0, 0, 1))

\* C13: after init_early(), for every tick count T converted,
\* nanos_to_ticks(ticks_to_nanos(T)) differs from T by at most 1, and of two
\* successive conversions the one of the larger tick count gives the larger
\* or an equal result.
C13_Step ==
    (init_early_done /\ conv'.called /\ conv' # conv) =>
       /\ WithinOne(conv'.back, conv'.ticks)
       /\ (conv.called /\ BLe(conv.ticks, conv'.ticks)) =>
             BLe(conv.back, conv'.back)

C13_RoundTripWithinOne == [][C13_Step]_vars

\* The round trip of 1,610,612,736 ticks of a 24 MHz counter gives
\* 1,610,612,734.
C13_DriftReached ==
    /\ init_early_done
    /\ CNTFRQ_EL0 = BFromNat(24000000, 8)
    /\ conv.called
    /\ conv.ticks = U64(0, 0, 24576, 0)
    /\ conv.back = BFromNat(1610612734, 8)

\* ----------------------------------------------------------------- C14
\* C14: once init_early() has completed, no step (set_oneshot_timer,
\* reset_timer, init_percpu, a conversion, the counter advancing) changes
\* RTC_EPOCHOFFSET_NANOS or either conversion ratio, every
\* epochoffset_nanos() call returns that stored offset, and the offset is 0
\* when no RTC is configured.
C14_Step ==
    init_early_done =>
       /\ RTC_EPOCHOFFSET_NANOS' = RTC_EPOCHOFFSET_NANOS
       /\ CNTPCT_TO_NANOS_RATIO' = CNTPCT_TO_NANOS_RATIO
       /\ NANOS_TO_CNTPCT_RATIO' = NANOS_TO_CNTPCT_RATIO
       /\ init_early_done'
       /\ conv' # conv => conv'.epochoffset = RTC_EPOCHOFFSET_NANOS
       /\ ~rtc.present => RTC_EPOCHOFFSET_NANOS = U64_ZERO

C14_EpochOffsetStable == [][C14_Step]_vars

\* With an RTC: after init_early, the counter has advanced, the one-shot timer
\* was armed, init_percpu and reset_timer have returned, and a reading
\* returned the non-zero offset init_early stored.
C14_Witness ==
    /\ init_early_done
    /\ rtc.present
    /\ ~BIsZero(CNTPCT_EL0)
    /\ oneshot.called
    /\ tdone.init_percpu >= 1
    /\ tdone.reset_timer >= 1
    /\ conv.called
    /\ ~BIsZero(conv.epochoffset)
    /\ conv.epochoffset = RTC_EPOCHOFFSET_NANOS

\* ----------------------------------------------------------------- C15
\* The timer interrupt handler waits in reset_timer for the TIMER lock while
\* the thread it interrupted holds it: the thread cannot run before the
\* handler returns, so the lock is never released.
C15_HandlerSpins ==
    /\ tpc.irq = "reset_lock"
    /\ TIMER_lock = "thread"

\* C15: the TIMER lock is held only while interrupts are disabled on the
\* core, so the timer interrupt handler's reset_timer() never waits for a
\* lock held by the code it interrupted.
C15_TimerLockIrqSafe ==
    /\ TIMER_lock # "free" => daif_i
    /\ ~C15_HandlerSpins

\* ----------------------------------------------------------------- C16
\* Positions of a handler_irq frame at which the frame has been left: by
\* returning, by unwinding, or not at all (the kernel halted in a panic).
IrqEntryLeft == {"done", "unwound", "panicked"}

C16_State ==
    \A c \in Cores :
       frame[c].op = "handler_irq" =>
          /\ frame[c].pc \notin IrqEntryLeft => guard[c]
          /\ frame[c].pc = "done" => (~guard[c] /\ frame[c].ret = "true")
          /\ frame[c].pc = "unwound" => ~guard[c]

C16_Step ==
    \A c \in Cores :
       /\ (~guard[c] /\ guard'[c]) =>
             /\ frame'[c].op = "handler_irq"
             /\ frame'[c].pc = "irq_dispatch"
       /\ (frame'[c].op = "handler_irq" /\ frame'[c].inv # frame[c].inv
             /\ frame'[c].inv # <<>>) =>
             (guard[c] /\ guard'[c])
       /\ (guard[c] /\ ~guard'[c]) =>
             /\ frame[c].op = "handler_irq"
             /\ frame[c].pc \in {"irq_drop", "panicked"}
             /\ frame'[c].pc \in {"done", "unwound"}

\* C16: in every execution of handler_irq the no-preemption guard is taken
\* before dispatch_irq starts, is held in every step of the dispatch and in
\* particular when a handler is invoked, and is released only after the
\* dispatch: before handler_irq returns true, and when a panic of the
\* dispatch unwinds out of handler_irq.
C16_GuardBracketsDispatch == [](C16_State) /\ [][C16_Step]_vars

\* handler_irq has invoked a registered handler and returned true, with the
\* guard released.
C16_Witness ==
    \E c \in Cores :
       /\ frame[c].op = "handler_irq"
       /\ frame[c].pc = "done"
       /\ frame[c].ret = "true"
       /\ frame[c].inv # <<>>
       /\ ~guard[c]

\* A panic of the dispatch has unwound out of handler_irq.
C16_UnwoundReached ==
    \E c \in Cores : frame[c].pc = "unwound" /\ ~guard[c]

\* ----------------------------------------------------------------- C17
\* C17: on both GIC variants, when a core has completed its per-core
\* controller initialization (init_primary or init_secondary), the
\* rescheduling SGI (id 3) is unmasked for that core.
C17_SgiUnmaskedAfterInit ==
    \A c \in Cores :
       (frame[c].op \in {"init_primary", "init_secondary"}
          /\ frame[c].pc = "done") =>
          c \in sgi_unmasked

\* The GICv3 init_primary has completed on a core and SGI 3 is unmasked
\* for it.
C17_GicV3PrimaryUnmasks ==
    \E c \in Cores :
       /\ backend = "gicv3"
       /\ frame[c].op = "init_primary"
       /\ frame[c].pc = "done"
       /\ c \in sgi_unmasked

\* ----------------------------------------------------------------- C18
\* The calls the claim names as unimplemented capabilities.
Unimplemented(f) ==
    \/ backend = "riscv"
         /\ f.op \in {"get_and_acknowledge_interrupt", "end_of_interrupt"}
    \/ backend = "gicv3" /\ f.op = "register_handler"

C18_State ==
    \A c \in Cores :
       /\ Unimplemented(frame[c]) =>
             (frame[c].pc = "panicked" /\ panic = "not implemented")
       /\ (backend = "gicv3" /\ frame[c].op = "handler_irq") =>
             frame[c].pc \in {"irq_dispatch", "panicked", "unwound"}

C18_Step ==
    \A c \in Cores :
       (frame'[c] # frame[c] /\ Unimplemented(frame'[c])) =>
          UNCHANGED <<IRQ_HANDLER_TABLE, TIMER_HANDLER, GIC_V3, intc_state>>

\* C18: RISC-V get_and_acknowledge_interrupt() and end_of_interrupt(), and
\* GICv3 register_handler() and dispatch_irq(), panic on every call: none
\* ever returns, and none changes the handler table, the timer slot, the
\* controller or the firmware's interrupt state.
C18_UnimplementedIsFatal == [](C18_State) /\ [][C18_Step]_vars

\* RISC-V end_of_interrupt() has returned without a panic.
C18_EndOfInterruptReturns ==
    \E c \in Cores :
       /\ backend = "riscv"
       /\ frame[c].op = "end_of_interrupt"
       /\ frame[c].pc = "done"
       /\ panic = "none"

\* ----------------------------------------------------------------- C19
\* C19: a set_oneshot_timer(d2) call that writes the countdown register
\* while an earlier arm (d1) is still pending replaces it: the register then
\* holds nanos_to_ticks(d2) - now when that is positive and 0 otherwise, with
\* now the counter at the call, whatever d1 was; the timer condition is
\* raised at once exactly when the value written is 0.
C19_Step ==
    (oneshot' # oneshot /\ oneshot'.rearm /\ oneshot'.wrote) =>
       LET d2  == oneshot'.deadline_ns
           dl  == nanos_to_ticks(d2)
           now == CNTPCT_EL0
       IN  /\ CNTP_TVAL_EL0' = IF BLt(now, dl) THEN BSub(dl, now)
                                               ELSE U64_ZERO
           /\ timer_cond' = BIsZero(CNTP_TVAL_EL0')

C19_RearmSupersedes == [][C19_Step]_vars

\* After init_early, a pending arm for one deadline was replaced by an arm
\* for an earlier, different deadline still ahead of the counter.
C19_Witness ==
    /\ init_early_done
    /\ oneshot.rearm
    /\ oneshot.wrote
    /\ oneshot.prev_later
    /\ ~BIsZero(oneshot.tval)
    /\ CNTP_TVAL_EL0 = oneshot.tval
    /\ CNTP_TVAL_EL0 = BSub(nanos_to_ticks(oneshot.deadline_ns), oneshot.cnptct)

\* ----------------------------------------------------------------- C20
\* init_primary has started on some core (in this boot sequence only
\* init_primary uses the cores' call frames).
InitPrimaryRan == \E c \in Cores : frame[c].op = "init_primary"

C20_State ==
    backend = "gicv3" =>
       /\ GIC_V3 = "Some" <=> InitPrimaryRan
       /\ \A c \in Cores :
             (frame[c].pc = "init_setup" /\ panic = "none") =>
                ENABLED InitPrimarySetup(c)

\* The step of init_percpu that calls set_enable(TIMER_IRQ_NUM, true).
TimerSetEnableStep ==
    /\ tpc.thread = "percpu_enable"
    /\ tpc' # tpc \/ panic' # panic

C20_Step ==
    /\ GIC_V3 = "Some" => GIC_V3' = "Some"
    /\ TimerSetEnableStep =>
          /\ panic' # "none" <=> (backend = "gicv3" /\ GIC_V3 = "None")
          /\ panic' = "none" => TIMER_IRQ_NUM \in enabled'
    /\ (TimerSetEnableStep /\ init_early_done
          /\ \E c \in Cores : frame[c].op = "init_primary"
                                 /\ frame[c].pc = "done") =>
          panic' = "none"

\* C20: on GICv3 the controller singleton is None until init_primary() runs
\* and Some in every state afterwards; set_enable() panics exactly when the
\* singleton is still None, so init_percpu()'s set_enable(TIMER_IRQ_NUM, true)
\* never panics after init_early() and init_primary(); and init_primary(),
\* once it holds the controller lock, proceeds to its end without waiting
\* for that lock.
C20_SingletonLifecycle == [](C20_State) /\ [][C20_Step]_vars

\* GICv3 boot order completed: init_early, init_primary, then init_percpu
\* returned with the timer line unmasked and no panic.
C20_Witness ==
    /\ backend = "gicv3"
    /\ init_early_done
    /\ GIC_V3 = "Some"
    /\ \E c \in Cores : frame[c].op = "init_primary" /\ frame[c].pc = "done"
    /\ tdone.init_percpu >= 1
    /\ TIMER_IRQ_NUM \in enabled
    /\ SGI_RESCHED \in enabled
    /\ panic = "none"

\* init_percpu called before init_primary on GICv3: set_enable panicked.
C20_EarlySetEnablePanics ==
    /\ backend = "gicv3"
    /\ GIC_V3 = "None"
    /\ tpc.thread = "percpu_enable"
    /\ panic = "unwrap on None"
=============================================================================
